---- MODULE Spec2Model ----
(***************************************************************************)
(* A model of r_wordcloud.py: the Archimedean-spiral word placement of     *)
(* wordcloud() and the bounding-box collision test _is_overlap().          *)
(*                                                                         *)
(* Numbers.  The code computes in floats; the model computes in a number   *)
(* format of coarser resolution: normalized canvas coordinates are         *)
(* fixed-point integers with One standing for 1.0, and a division          *)
(* truncates to that resolution the way a float operation rounds to its    *)
(* own.  In particular the radius increment r_step * theta_step / (2 pi)   *)
(* of a small positive r_step rounds to 0, as it does in doubles for       *)
(* r_step = theta_step = 1e-200.  Angles are multiples of a quarter turn   *)
(* (theta = k * pi/2, kept modulo a full turn), for which cos and sin are  *)
(* exactly -1, 0 or 1.  Frequencies are non-negative integers; a           *)
(* normalized frequency f / max_freq and a scale factor are kept as exact  *)
(* fractions over max_freq.                                                *)
(*                                                                         *)
(* Collaborators.  The text measurer is external: a measurement is any     *)
(* box of cfg.sizes, whatever the word and its font size.  The random      *)
(* source is a choice among the values a draw can take.  Rendering is not  *)
(* modelled: a run ends when the placement loop does.                      *)
(***************************************************************************)
EXTENDS Integers, Sequences, FiniteSets, TLC

VARIABLES cfg, pc, err, words_freqs, max_freq, cex_values, i, wid, ht,
          rot_word, r, theta, boxes, placed, attempted, query, verdict

vars == <<cfg, pc, err, words_freqs, max_freq, cex_values, i, wid, ht,
          rot_word, r, theta, boxes, placed, attempted, query, verdict>>

layoutVars == <<cfg, pc, err, words_freqs, max_freq, cex_values, i, wid, ht,
                rot_word, r, theta, boxes, placed, attempted>>

(* ------------------------------ bounds -------------------------------- *)

\* Number of entries of the frequencies dict.
NWords == 3

\* Largest frequency of an entry.
MaxFreq == 2

\* Largest number of palette colours.
MaxColors == 2

\* Largest coordinate of a box handed to the overlap test on its own.
QMax == 2

(* ----------------------------- arithmetic ----------------------------- *)

\* The fixed-point value of 1.0, the side of the normalized canvas.
One == 100

Min(a, b) == IF a < b THEN a ELSE b

Max(a, b) == IF a > b THEN a ELSE b

\* math.ceil(n / d) for d > 0.
CeilDiv(n, d) == -((-n) \div d)

\* 0.5 * x
Half(x) == x \div 2

\* cos and sin of theta = k quarter turns, k in 0..3.
Cos(k) == <<1, 0, -1, 0>>[k + 1]

Sin(k) == <<0, 1, 0, -1>>[k + 1]

\* r > math.sqrt(0.5), for r >= 0
PastCutoff(rr) == 2 * rr * rr > One * One

(* ------------------------- words and palettes ------------------------- *)

\* A word is a sequence of characters; the keys of the dict, in insertion order.
AllWords == << <<"a">>, <<"P", "y">>, <<"b", "b">>, <<"d", "a", "t", "a">>,
               <<"q">> >>

Words == SubSeq(AllWords, 1, NWords)

TAILS == {"g", "j", "p", "q", "y"}

\* str.lower() on the characters the words use.
Lower(c) == CASE c = "P" -> "p" [] c = "Y" -> "y" [] OTHER -> c

_has_tails(word) == \E k \in 1..Len(word) : Lower(word[k]) \in TAILS

\* The first colours of the Dark2 palette, as sequences of hex digits.
Dark2 == << <<"1","B","9","E","7","7">>, <<"D","9","5","F","0","2">>,
            <<"7","5","7","0","B","3">>, <<"E","7","2","9","8","A">> >>

\* A palette given as a list is used as it is.
_get_palette_colors(palette) == palette

HexVal(d) ==
    CASE d = "0" -> 0 [] d = "1" -> 1 [] d = "2" -> 2 [] d = "3" -> 3
      [] d = "4" -> 4 [] d = "5" -> 5 [] d = "6" -> 6 [] d = "7" -> 7
      [] d = "8" -> 8 [] d = "9" -> 9 [] d = "A" -> 10 [] d = "B" -> 11
      [] d = "C" -> 12 [] d = "D" -> 13 [] d = "E" -> 14 [] d = "F" -> 15

_hex_to_rgb(h) == << 16 * HexVal(h[1]) + HexVal(h[2]),
                     16 * HexVal(h[3]) + HexVal(h[4]),
                     16 * HexVal(h[5]) + HexVal(h[6]) >>

colors == _get_palette_colors(cfg.palette)

nc == Len(colors)

rgb_colors == [k \in 1..nc |-> _hex_to_rgb(colors[k])]

(* ------------------------- filtering and order ------------------------ *)

\* [(w, f) for w, f in frequencies.items() if f >= min_freq]
IsIncluded(e) == e[2] >= cfg.min_freq

Filtered == SelectSeq(cfg.frequencies, IsIncluded)

\* list.sort(key = frequency, reverse = True): a stable sort, here by insertion
\* of each entry behind the entries whose frequency is at least its own.
\* An insertion in front of the entries of equal frequency: an unstable sort.
RECURSIVE InsertDescUnstable(_, _)
InsertDescUnstable(s, e) ==
    IF s = <<>> THEN <<e>>
    ELSE IF Head(s)[2] > e[2] THEN <<Head(s)>> \o InsertDescUnstable(Tail(s), e)
    ELSE <<e>> \o s

RECURSIVE InsertDesc(_, _)
InsertDesc(s, e) ==
    IF s = <<>> THEN <<e>>
    ELSE IF Head(s)[2] >= e[2] THEN <<Head(s)>> \o InsertDesc(Tail(s), e)
    ELSE <<e>> \o s

RECURSIVE SortDesc(_)
SortDesc(s) ==
    IF s = <<>> THEN <<>>
    ELSE InsertDesc(SortDesc(SubSeq(s, 1, Len(s) - 1)), s[Len(s)])

\* words_freqs[:max_words], for max_words >= 0
Truncate(s, n) == SubSeq(s, 1, Min(n, Len(s)))

Ranked == Truncate(SortDesc(Filtered), cfg.max_words)

\* The orders random.shuffle can leave a list in: all its permutations.
Shuffles(s) ==
    { [k \in 1..Len(s) |-> s[p[k]]] :
        p \in { q \in [1..Len(s) -> 1..Len(s)] :
                  \A a, b \in 1..Len(s) : a # b => q[a] # q[b] } }

words == [k \in 1..Len(words_freqs) |-> words_freqs[k][1]]

freqs == [k \in 1..Len(words_freqs) |-> words_freqs[k][2]]

RECURSIVE MaxOf(_)
MaxOf(s) == IF Len(s) = 1 THEN s[1] ELSE Max(s[1], MaxOf(Tail(s)))

\* The scale formula with scale[0] and scale[1] taken for each other.
CexSwapped(f, mf) == (cfg.scale[2] - cfg.scale[1]) * f + cfg.scale[1] * mf

\* cex = (scale[0] - scale[1]) * (f / max_freq) + scale[1], as the numerator of
\* the fraction over max_freq.
Cex(f, mf) == (cfg.scale[1] - cfg.scale[2]) * f + cfg.scale[2] * mf

(* ------------------------------ overlap ------------------------------- *)

\* The pass with >= for >: boxes that only touch count as overlapping.
OverlapsBoxTouching(x1, y1, w1, h1, b) ==
    LET x2 == b[1]
        y2 == b[2]
        w2 == b[3]
        h2 == b[4]
        ov_x == IF x1 < x2 THEN (x1 + w1) >= x2 ELSE (x2 + w2) >= x1
    IN  IF y1 < y2 THEN ov_x /\ ((y1 + h1) >= y2) ELSE ov_x /\ ((y2 + h2) >= y1)

\* One pass of the loop of _is_overlap: the candidate against one placed box.
OverlapsBox(x1, y1, w1, h1, b) ==
    LET x2 == b[1]
        y2 == b[2]
        w2 == b[3]
        h2 == b[4]
        ov_x == IF x1 < x2 THEN (x1 + w1) > x2 ELSE (x2 + w2) > x1
    IN  IF y1 < y2 THEN ov_x /\ ((y1 + h1) > y2) ELSE ov_x /\ ((y2 + h2) > y1)

\* _is_overlap with "return False" inside the loop: only the first box is tested.
IsOverlapFirstOnly(x1, y1, w1, h1, bs) ==
    bs # <<>> /\ OverlapsBox(x1, y1, w1, h1, bs[1])

_is_overlap(x1, y1, w1, h1, bs) ==
    \E k \in 1..Len(bs) : OverlapsBox(x1, y1, w1, h1, bs[k])

(* ------------------------------ colours ------------------------------- *)

\* ci = min(int(math.ceil(nc * normed_freq[i])), nc) - 1; ci = max(0, ci)
ColorBucket(n, f, mf) == Max(0, Min(CeilDiv(n * f, mf), n) - 1)

\* The colour index without the reversal: rgb_colors[ci]
ColorIndexUnreversed(n, f, mf) == ColorBucket(n, f, mf)

\* The index of rgb_colors[nc - 1 - ci]
ColorIndex(n, f, mf) == n - 1 - ColorBucket(n, f, mf)

\* Python's list[k]: defined for -len <= k < len.
PyIndexOK(s, k) == -Len(s) <= k /\ k < Len(s)

PyIndex(s, k) == IF k >= 0 THEN s[k + 1] ELSE s[Len(s) + k + 1]

(* ---------------------------- the candidate --------------------------- *)

x1 == Half(One) + r * Cos(theta)

y1 == Half(One) + r * Sin(theta)

bx == x1 - Half(wid)

by == y1 - Half(ht)

\* The bounds check without its right-hand side.
InBoundsNoRight == bx > 0 /\ by > 0 /\ by + ht < One

InBounds == bx > 0 /\ by > 0 /\ bx + wid < One /\ by + ht < One

Fits == InBounds /\ ~_is_overlap(bx, by, wid, ht, boxes)

\* r_step * theta_step / (2 * math.pi), with theta_step in quarter turns
RInc == (cfg.r_step * cfg.theta_step) \div 4

(* ------------------------------ actions ------------------------------- *)

Idle ==
    /\ words_freqs = <<>> /\ max_freq = 0 /\ cex_values = <<>> /\ i = 0
    /\ wid = 0 /\ ht = 0 /\ rot_word = FALSE /\ r = 0 /\ theta = 0
    /\ boxes = <<>> /\ placed = <<>> /\ attempted = <<>> /\ err = "none"

NoQuery == query = <<>> /\ verdict = "none"

\* Lines 166-181: nothing is left after the filter; a blank image is returned.
PrepareEmpty ==
    /\ pc = "start"
    /\ Ranked = <<>>
    /\ pc' = "done"
    /\ UNCHANGED <<cfg, err, words_freqs, max_freq, cex_values, i, wid, ht,
                   rot_word, r, theta, boxes, placed, attempted, query, verdict>>

\* Lines 166-191 when max(freqs) is 0: f / max_freq raises ZeroDivisionError.
PrepareZeroDivision ==
    /\ pc = "start"
    /\ Ranked # <<>>
    /\ \E s \in (IF cfg.random_order THEN Shuffles(Ranked) ELSE {Ranked}) :
         /\ MaxOf([k \in 1..Len(s) |-> s[k][2]]) = 0
         /\ words_freqs' = s
    /\ max_freq' = 0
    /\ pc' = "error"
    /\ err' = "ZeroDivisionError"
    /\ UNCHANGED <<cfg, cex_values, i, wid, ht, rot_word, r, theta, boxes,
                   placed, attempted, query, verdict>>

\* Lines 166-218: filter, sort, truncate, order, normalize, scale.
Prepare ==
    /\ pc = "start"
    /\ Ranked # <<>>
    /\ \E s \in (IF cfg.random_order THEN Shuffles(Ranked) ELSE {Ranked}) :
         LET mf == MaxOf([k \in 1..Len(s) |-> s[k][2]])
         IN  /\ mf # 0
             /\ words_freqs' = s
             /\ max_freq' = mf
             /\ cex_values' = [k \in 1..Len(s) |-> Cex(s[k][2], mf)]
    /\ i' = 1
    /\ pc' = "measure"
    /\ UNCHANGED <<cfg, err, wid, ht, rot_word, r, theta, boxes, placed,
                   attempted, query, verdict>>

\* tw_px, th_px after the margin and the descender compensation (lines 225-231)
MeasuredW(m) == m[1] + cfg.margin * 2

MeasuredH(m, word) ==
    LET th_px == m[2] + cfg.margin * 2
    IN  IF _has_tails(word) THEN th_px + (th_px * 2) \div 10 ELSE th_px

\* Lines 220-235 on a canvas of width or height 0: tw_px / width raises.
MeasureZeroDivision ==
    /\ pc = "measure"
    /\ ~(cfg.width # 0 /\ cfg.height # 0)
    /\ attempted' = Append(attempted, words[i])
    /\ pc' = "error"
    /\ err' = "ZeroDivisionError"
    /\ UNCHANGED <<cfg, words_freqs, max_freq, cex_values, i, wid, ht,
                   rot_word, r, theta, boxes, placed, query, verdict>>

\* The values random.random() < rot_per can take, random() being in [0, 1);
\* rot_per is in percent.
RotChoices == { b \in BOOLEAN : (b => cfg.rot_per > 0) /\ (~b => cfg.rot_per < 100) }

\* Lines 220-245: measure word i, draw its rotation and its start angle.
Measure ==
    /\ pc = "measure"
    /\ cfg.width # 0 /\ cfg.height # 0
    /\ \E m \in cfg.sizes, rot \in RotChoices, th0 \in 0..3 :
         LET w0 == (MeasuredW(m) * One) \div cfg.width
             h0 == (MeasuredH(m, words[i]) * One) \div cfg.height
         IN  /\ wid' = IF rot THEN h0 ELSE w0
             /\ ht' = IF rot THEN w0 ELSE h0
             /\ rot_word' = rot
             /\ theta' = th0
    /\ r' = 0
    /\ attempted' = Append(attempted, words[i])
    /\ pc' = "spiral"
    /\ UNCHANGED <<cfg, err, words_freqs, max_freq, cex_values, i, boxes,
                   placed, query, verdict>>

\* The for loop's step to the next word, or past the last one.
NextWord ==
    /\ i' = i + 1
    /\ pc' = IF i = Len(words_freqs) THEN "done" ELSE "measure"

\* The colours line 261 or lines 263-266 can give; none when the lookup raises.
ColorChoices ==
    IF cfg.random_color
    THEN {rgb_colors[k] : k \in 1..nc}
    ELSE LET idx == ColorIndex(nc, freqs[i], max_freq)
         IN  IF PyIndexOK(rgb_colors, idx) THEN {PyIndex(rgb_colors, idx)} ELSE {}

\* Lines 255-266 with no colour to take: random.randint(0, -1) raises
\* ValueError, rgb_colors[-1] of an empty list raises IndexError.
AcceptColorError ==
    /\ pc = "spiral"
    /\ Fits
    /\ ColorChoices = {}
    /\ pc' = "error"
    /\ err' = IF cfg.random_color THEN "ValueError" ELSE "IndexError"
    /\ UNCHANGED <<cfg, words_freqs, max_freq, cex_values, i, wid, ht,
                   rot_word, r, theta, boxes, placed, attempted, query, verdict>>

\* Lines 255-275: the candidate is in bounds and overlaps nothing.
Accept ==
    /\ pc = "spiral"
    /\ Fits
    /\ \E cc \in ColorChoices :
         placed' = Append(placed,
                     [word |-> words[i],
                      px |-> (x1 * cfg.width) \div One,
                      py |-> (y1 * cfg.height) \div One,
                      cex |-> cex_values[i],      \* stands for the font get_font(cex)
                      rotated |-> rot_word,
                      color |-> cc])
    /\ boxes' = Append(boxes, <<bx, by, wid, ht>>)
    /\ NextWord
    /\ UNCHANGED <<cfg, err, words_freqs, max_freq, cex_values, wid, ht,
                   rot_word, r, theta, attempted, query, verdict>>

\* A drop that starts the same word's spiral again instead of moving on.
DropRetry ==
    /\ pc = "spiral"
    /\ ~Fits
    /\ PastCutoff(r)
    /\ r' = 0
    /\ UNCHANGED <<cfg, pc, err, words_freqs, max_freq, cex_values, i, wid, ht,
                   rot_word, theta, boxes, placed, attempted, query, verdict>>

\* Lines 278-280: the radius is past sqrt(0.5); the word is given up.
Drop ==
    /\ pc = "spiral"
    /\ ~Fits
    /\ PastCutoff(r)
    /\ NextWord
    /\ UNCHANGED <<cfg, err, words_freqs, max_freq, cex_values, wid, ht,
                   rot_word, r, theta, boxes, placed, attempted, query, verdict>>

\* Lines 282-283: one step along the spiral.
Advance ==
    /\ pc = "spiral"
    /\ ~Fits
    /\ ~PastCutoff(r)
    /\ theta' = (theta + cfg.theta_step) % 4
    /\ r' = r + RInc
    /\ UNCHANGED <<cfg, pc, err, words_freqs, max_freq, cex_values, i, wid, ht,
                   rot_word, boxes, placed, attempted, query, verdict>>

Next ==
    \/ PrepareEmpty
    \/ PrepareZeroDivision
    \/ Prepare
    \/ MeasureZeroDivision
    \/ Measure
    \/ AcceptColorError
    \/ Accept
    \/ Drop
    \/ Advance

(* --------------------------- configurations --------------------------- *)

\* The frequencies dicts over Words: every word with a frequency in 0..MaxFreq.
FreqTables ==
    { [k \in 1..NWords |-> <<Words[k], f[k]>>] : f \in [1..NWords -> 0..MaxFreq] }

\* The text boxes the measurer returns, in pixels, before the margin: no text,
\* a short word, a large word, a word wider than the canvas.
TextBoxes == { <<0, 0>>, <<26, 16>>, <<56, 56>>, <<116, 26>> }

Palettes == { SubSeq(Dark2, 1, n) : n \in 0..MaxColors }

\* scale = (max_cex, min_cex), in tenths
Scales == { <<40, 5>>, <<5, 40>>, <<5, 5>>, <<0, 0>> }

\* Every word with the same frequency f.
Uniform(f) == [k \in 1..NWords |-> <<Words[k], f>>]

\* The call the variations below start from: the defaults of wordcloud(), on a
\* canvas of One x One pixels, with a quarter turn for theta_step.
Base ==
    [ frequencies |-> Uniform(MaxFreq), min_freq |-> 1, max_words |-> NWords,
      random_order |-> FALSE, random_color |-> FALSE, rot_per |-> 10,
      palette |-> SubSeq(Dark2, 1, MaxColors), scale |-> <<40, 5>>,
      width |-> One, height |-> One, margin |-> 2,
      theta_step |-> 1, r_step |-> 40, sizes |-> TextBoxes ]

\* The calls that fail, or return at once: no frequency above 0, an empty
\* palette, a canvas without width or height, a scale of 0.
Degenerates(b) ==
    { [b EXCEPT !.frequencies = Uniform(0), !.min_freq = m] : m \in {0, 1} }
    \cup { [b EXCEPT !.palette = <<>>, !.random_color = c] : c \in BOOLEAN }
    \cup { [b EXCEPT !.width = 0], [b EXCEPT !.height = 0],
           [b EXCEPT !.scale = <<0, 0>>] }

\* Layouts of words of every measured size: r_step 0.4, r_step 0.02 (whose
\* radius increment rounds to nothing), and no margin.
LayoutCfgs ==
    { Base, [Base EXCEPT !.r_step = 2], [Base EXCEPT !.margin = 0] }
    \cup Degenerates(Base)

Init == cfg \in LayoutCfgs /\ pc = "start" /\ Idle /\ NoQuery

Spec == Init /\ [][Next]_vars

\* The loop of wordcloud() runs on: no step is ever held back.
FairSpec == Spec /\ WF_vars(Next)

\* Every dict, filter, truncation, palette and scale, on short and oversized
\* words that are never rotated, with a spiral of one step (r_step 4.0).
RankBase ==
    [Base EXCEPT !.rot_per = 0, !.r_step = 400,
                 !.sizes = { <<26, 16>>, <<116, 26>> }]

RankCfgs ==
    { [RankBase EXCEPT !.frequencies = t, !.min_freq = m, !.max_words = n] :
        t \in FreqTables, m \in {0, 1}, n \in {NWords - 1, NWords} }
    \cup { [RankBase EXCEPT !.frequencies = t, !.palette = p, !.random_color = c] :
             t \in FreqTables, p \in Palettes \ {<<>>}, c \in BOOLEAN }
    \cup { [RankBase EXCEPT !.frequencies = t, !.scale = s] :
             t \in FreqTables, s \in Scales }
    \cup { [RankBase EXCEPT !.frequencies = t, !.random_order = TRUE,
                            !.max_words = 2] : t \in FreqTables }
    \cup Degenerates(RankBase)

InitRank == cfg \in RankCfgs /\ pc = "start" /\ Idle /\ NoQuery

SpecRank == InitRank /\ [][Next]_vars

(* ----------------------- the overlap test alone ---------------------- *)

\* Boxes of positive width and height on a small grid.
QSizes == {1, 2}

QBoxes == { <<x, y, w, h>> : x \in 0..QMax, y \in 0..QMax, w \in QSizes, h \in QSizes }

Queries ==
    { [cand |-> c, bs |-> b] :
        c \in QBoxes,
        b \in {<<>>} \cup { <<p>> : p \in QBoxes } \cup { <<p, q>> : p \in QBoxes, q \in QBoxes } }

\* A call _is_overlap(x1, y1, w1, h1, boxes)
Ask ==
    /\ pc = "overlap"
    /\ verdict = "none"
    /\ verdict' = IF _is_overlap(query.cand[1], query.cand[2], query.cand[3],
                                 query.cand[4], query.bs)
                  THEN "yes" ELSE "no"
    /\ UNCHANGED <<layoutVars, query>>

NextOverlap == Ask

InitOverlap ==
    /\ cfg = Base /\ pc = "overlap" /\ Idle
    /\ query \in Queries /\ verdict = "none"

SpecOverlap == InitOverlap /\ [][NextOverlap]_vars

(* ------------------------------ claims -------------------------------- *)

\* Two rectangles meet as open rectangles: strict inequalities on both axes.
Intersects(a, b) ==
    /\ a[1] < b[1] + b[3] /\ b[1] < a[1] + a[3]
    /\ a[2] < b[2] + b[4] /\ b[2] < a[2] + a[4]

\* The test of _is_overlap on a pair of recorded boxes, a as the candidate.
PairOverlaps(a, b) == _is_overlap(a[1], a[2], a[3], a[4], <<b>>)

placedWords == [k \in 1..Len(placed) |-> placed[k].word]

\* C1: at every point of a layout run, no two distinct recorded boxes overlap:
\* not as open rectangles (strict inequalities on both axes, either box first),
\* and not under the test of _is_overlap with the later box as the candidate
\* and the earlier one as the placed box, the way the code applied it.
C1_NoOverlap ==
    \A a, b \in 1..Len(boxes) :
        a # b => /\ ~Intersects(boxes[a], boxes[b])
                 /\ (a > b => ~PairOverlaps(boxes[a], boxes[b]))

\* Three boxes are recorded, two of them sharing an edge: the right side of
\* one is the left side of the other, and their vertical extents meet.
C1_Witness ==
    /\ Len(boxes) = NWords
    /\ \E a, b \in 1..Len(boxes) :
         /\ boxes[a][1] + boxes[a][3] = boxes[b][1]
         /\ boxes[a][3] > 0 /\ boxes[b][3] > 0
         /\ boxes[a][2] < boxes[b][2] + boxes[b][4]
         /\ boxes[b][2] < boxes[a][2] + boxes[a][4]

\* C2: every recorded box lies strictly inside the unit canvas: x > 0, y > 0,
\* x + width < 1 and y + height < 1.
C2_InBounds ==
    \A k \in 1..Len(boxes) :
        /\ boxes[k][1] > 0 /\ boxes[k][2] > 0
        /\ boxes[k][1] + boxes[k][3] < One
        /\ boxes[k][2] + boxes[k][4] < One

\* A rotated word was placed away from the centre, one unit short of an edge
\* of the canvas.
C2_Witness ==
    \E k \in 1..Len(boxes) :
        /\ placed[k].rotated
        /\ placed[k].px # Half(One) \/ placed[k].py # Half(One)
        /\ \/ boxes[k][1] = 1 \/ boxes[k][2] = 1
           \/ boxes[k][1] + boxes[k][3] = One - 1
           \/ boxes[k][2] + boxes[k][4] = One - 1

\* C3: under weak fairness of the loop (the program keeps running), every
\* layout run ends: it returns or raises.
C3_Terminates == <>(pc \in {"done", "error"})

\* C4: a step taken from a search that is past the radius cutoff with a
\* candidate that does not fit raises nothing, leaves the placement list and
\* the box list as they are, and moves to the next word (or ends the run after
\* the last one) without measuring the dropped word again; and no word is ever
\* attempted twice.
C4_DropStep ==
    [][ (pc = "spiral" /\ ~Fits /\ PastCutoff(r)) =>
          /\ err' = "none"
          /\ placed' = placed
          /\ boxes' = boxes
          /\ attempted' = attempted
          /\ i' = i + 1
          /\ pc' = IF i < Len(words_freqs) THEN "measure" ELSE "done" ]_vars

C4_NoRetry ==
    \A a, b \in 1..Len(attempted) : a # b => attempted[a] # attempted[b]

C4_Dropped == C4_DropStep /\ [](C4_NoRetry)

\* The run is over; the second word was dropped and the first and the third,
\* attempted after it, were placed.
C4_Witness ==
    /\ pc = "done"
    /\ Len(attempted) = 3
    /\ placedWords = <<attempted[1], attempted[3]>>

\* max scale <= 0, a canvas without width or height, or an empty palette
Degenerate ==
    \/ cfg.scale[1] <= 0
    \/ cfg.width = 0
    \/ cfg.height = 0
    \/ colors = <<>>

\* C8: under a degenerate configuration no word is ever measured and no spiral
\* candidate is ever tried.
C8_RejectedFirst == Degenerate => (attempted = <<>> /\ pc # "spiral")

Included == { k \in 1..Len(cfg.frequencies) : IsIncluded(cfg.frequencies[k]) }

\* C9: a call whose included entries are not empty and all have frequency 0
\* raises nothing (and its run ends with no placement).
C9_ZeroFrequencies ==
    ( /\ Included # {}
      /\ cfg.max_words > 0
      /\ \A k \in Included : cfg.frequencies[k][2] <= 0 )
    => (err = "none" /\ placed = <<>>)

\* The frequency the dict gives a word.
freqOf(w) ==
    cfg.frequencies[CHOOSE k \in 1..Len(cfg.frequencies) : cfg.frequencies[k][1] = w][2]

posOf(w) == CHOOSE k \in 1..Len(cfg.frequencies) : cfg.frequencies[k][1] = w

\* Entry d ranks before entry e: a higher frequency, or the same frequency and
\* an earlier place in the dict.
Before(d, e) == d[2] > e[2] \/ (d[2] = e[2] /\ posOf(d[1]) < posOf(e[1]))

\* s is t with some of its elements left out.
IsSubsequence(s, t) ==
    \E f \in [1..Len(s) -> 1..Len(t)] :
        /\ \A a, b \in 1..Len(s) : a < b => f[a] < f[b]
        /\ \A a \in 1..Len(s) : s[a] = t[f[a]]

\* C5: with random_order false, once the words are prepared, the words to
\* attempt are included entries of the dict, as many as max_words allows, each
\* ranking before the next (frequency descending, ties in dict order) and
\* before every included entry left out; the words attempted so far are the
\* first of them in that order, and the placed words are a subsequence.
C5_Order ==
    (~cfg.random_order /\ pc # "start") =>
        /\ Len(words_freqs) = Min(cfg.max_words, Cardinality(Included))
        /\ \A k \in 1..Len(words_freqs) :
              \E j \in Included : cfg.frequencies[j] = words_freqs[k]
        /\ \A a, b \in 1..Len(words_freqs) :
              a < b => Before(words_freqs[a], words_freqs[b])
        /\ \A j \in Included :
              (\A k \in 1..Len(words_freqs) : words_freqs[k] # cfg.frequencies[j])
              => \A k \in 1..Len(words_freqs) : Before(words_freqs[k], cfg.frequencies[j])
        /\ Len(attempted) <= Len(words_freqs)
        /\ attempted = SubSeq(words, 1, Len(attempted))
        /\ IsSubsequence(placedWords, attempted)

\* A finished run in frequency order over a dict whose first entry is not its
\* most frequent, with a tie at the top, and an included entry cut by max_words.
C5_Witness ==
    /\ pc = "done" /\ ~cfg.random_order
    /\ Len(attempted) = Len(words_freqs)
    /\ Len(words_freqs) >= 2
    /\ Len(words_freqs) < Cardinality(Included)
    /\ words_freqs[1][2] = words_freqs[2][2]
    /\ cfg.frequencies[1][2] < words_freqs[1][2]
    /\ placed # <<>>

\* The least integer c with c >= n / d, for n >= 0 and d > 0.
LeastAtLeast(n, d) == CHOOSE c \in 0..n : c * d >= n /\ (c - 1) * d < n

Clamp(v, lo, hi) == IF v < lo THEN lo ELSE IF v > hi THEN hi ELSE v

\* C6: with random_color false and a palette of N >= 1 colours, every placed
\* word has the colour palette[N - 1 - ci], ci = clamp(ceil(N * nf), 1, N) - 1;
\* the index is in 0..N-1; a word of the highest frequency has palette[0].
C6_FrequencyColor ==
    (~cfg.random_color /\ nc >= 1) =>
        \A k \in 1..Len(placed) :
            LET f == freqOf(placed[k].word)
                ci == Clamp(LeastAtLeast(nc * f, max_freq), 1, nc) - 1
                idx == nc - 1 - ci
            IN  /\ idx \in 0..(nc - 1)
                /\ placed[k].color = _hex_to_rgb(cfg.palette[idx + 1])
                /\ f = max_freq => placed[k].color = _hex_to_rgb(cfg.palette[1])

\* A word below the highest frequency was placed, in frequency mode, with a
\* colour that is not the first of a palette of several.
C6_Witness ==
    /\ ~cfg.random_color /\ nc >= 2
    /\ \E k \in 1..Len(placed) :
         /\ freqOf(placed[k].word) < max_freq
         /\ placed[k].color # _hex_to_rgb(cfg.palette[1])

\* C7 as stated: of two words of one layout, the more frequent never has the
\* smaller scale factor (fractions over the same max_freq > 0).
C7_Monotonic ==
    \A a, b \in 1..Len(cex_values) :
        freqs[a] > freqs[b] => cex_values[a] >= cex_values[b]

\* C7 amended: the same, for a scale whose maximum is at least its minimum.
C7_MonotonicOrderedScale ==
    cfg.scale[1] >= cfg.scale[2] =>
        \A a, b \in 1..Len(cex_values) :
            freqs[a] > freqs[b] => cex_values[a] >= cex_values[b]

\* Two words of different frequencies were scaled, with max scale above min
\* scale, and the more frequent got the strictly larger factor.
C7_Witness ==
    /\ cfg.scale[1] > cfg.scale[2]
    /\ \E a, b \in 1..Len(cex_values) :
         freqs[a] > freqs[b] /\ cex_values[a] > cex_values[b]

\* Two boxes share part of an edge or a corner, and nothing more.
Touching(a, b) ==
    /\ ~Intersects(a, b)
    /\ a[1] <= b[1] + b[3] /\ b[1] <= a[1] + a[3]
    /\ a[2] <= b[2] + b[4] /\ b[2] <= a[2] + a[4]

\* C10: on boxes of positive width and height, _is_overlap answers true
\* exactly when some placed box meets the candidate as open rectangles, and its
\* test of a pair does not depend on which of the two is the candidate.
C10_OverlapTest ==
    verdict # "none" =>
        /\ (verdict = "yes") <=>
              (\E k \in 1..Len(query.bs) : Intersects(query.cand, query.bs[k]))
        /\ \A k \in 1..Len(query.bs) :
              PairOverlaps(query.cand, query.bs[k])
                <=> PairOverlaps(query.bs[k], query.cand)

\* The answer is true on a list whose first box only touches the candidate and
\* whose second box overlaps it.
C10_Witness ==
    /\ verdict = "yes"
    /\ Len(query.bs) = 2
    /\ Touching(query.cand, query.bs[1])
    /\ Intersects(query.cand, query.bs[2])

====
